---- MODULE Spec2Model ----
(***************************************************************************)
(* Model of eloquent/connections/connection.py: the Connection class.      *)
(* The connection object's fields are the state; every public method is    *)
(* one action that runs the whole method body.  The driver, the            *)
(* reconnector and the callbacks handed to pretend() / the scoped          *)
(* transaction forms are the environment: their outcomes are inputs.       *)
(***************************************************************************)
EXTENDS Integers, Sequences, FiniteSets, TLC

VARIABLES connection, read_connection, reconnector, transactions,
          pretending, logging_queries, stack, last, nest

vars == <<connection, read_connection, reconnector, transactions,
          pretending, logging_queries, stack, last, nest>>

(***************************************************************************)
(* Bounds of the exploration.                                              *)
(***************************************************************************)
MaxLevel == 2
MaxUnder == 1
MaxDepth == 2

(***************************************************************************)
(* Values.                                                                 *)
(***************************************************************************)
None == "None"
Handles == {"h1"}
ReadHandles == {"h2"}
ReconnectedHandle == "h1"
Reconnectors == {"install"}
Bindings == {None, "b"}

M_gone == <<"MySQL", "server", "has", "gone", "away">>
M_noconn == <<"no", "connection", "to", "the", "server">>
M_lost == <<"Lost", "Connection">>
M_lower == <<"lost", "connection">>
M_none_attr == <<"NoneType", "object", "has", "no", "attribute">>
M_swap == <<"Can't", "swap", "dbapi", "connectionwhile", "within", "transaction.">>
M_noreconnector == <<"Lost", "connection", "and", "no", "reconnector", "available">>
M_work == <<"work", "failed">>

Ok == <<"ok">>
\* what the driver answers to the first and to the second execute of a run
First == {Ok, M_gone, M_lower}

\* the literals of _caused_by_lost_connection
LostConnectionMessages ==
    << <<"server", "has", "gone", "away">>,
       <<"no", "connection", "to", "the", "server">>,
       <<"Lost", "Connection">> >>

NoResult == "-"
NoError == [type |-> "none", msg |-> <<>>, bindings |-> "-", cause |-> "none"]
Err(t, m) == [type |-> t, msg |-> m, bindings |-> "-", cause |-> "none"]
DriverError(m) == Err("DriverError", m)
AttributeError == Err("AttributeError", M_none_attr)
WorkError == Err("WorkError", M_work)

Ev(e) == [ev |-> e, h |-> "-", m |-> "-"]
Call(h, m) == [ev |-> "call", h |-> h, m |-> m]
DriverCalls(h, ms) == [i \in 1..Len(ms) |-> Call(h, ms[i])]

\* the connection object
Self == [connection |-> connection, read_connection |-> read_connection,
         reconnector |-> reconnector, transactions |-> transactions,
         pretending |-> pretending, logging_queries |-> logging_queries]

\* outcome of a method: the object afterwards, the calls made, the value
\* returned and the error raised
Out(s, t, r, e) == [s |-> s, trace |-> t, result |-> r, error |-> e]
Raised(o) == o.error.type # "none"

(***************************************************************************)
(* Connection Router                                                       *)
(***************************************************************************)
get_connection(s) == s.connection

get_read_connection(s) ==
    IF s.transactions >= 1 THEN get_connection(s)
    ELSE IF s.read_connection # None THEN s.read_connection
    ELSE s.connection

set_connection(s, h) ==
    IF s.transactions >= 1 THEN Out(s, <<>>, NoResult, Err("RuntimeError", M_swap))
    ELSE Out([s EXCEPT !.connection = h], <<>>, "self", NoError)

set_read_connection(s, h) ==
    Out([s EXCEPT !.read_connection = h], <<>>, "self", NoError)

disconnect(s) ==
    LET a == set_connection(s, None)
    IN IF Raised(a) THEN a ELSE set_read_connection(a.s, None)

set_reconnector(s, r) == Out([s EXCEPT !.reconnector = r], <<>>, "self", NoError)

pretending_(s) == s.pretending

enable_query_log(s) == [s EXCEPT !.logging_queries = TRUE]

disable_query_log(s) == [s EXCEPT !.logging_queries = FALSE]

prepare_bindings(b) == IF b = None THEN "[]" ELSE b

(***************************************************************************)
(* Reconnection Controller                                                 *)
(***************************************************************************)
\* the reconnector is caller-supplied: "install" puts a fresh write handle in
\* place through set_connection, "noop" returns without touching the object
ReconnectorCall(s) ==
    CASE s.reconnector = "install" ->
           LET a == set_connection(s, ReconnectedHandle)
           IN Out(a.s, <<Ev("reconnector")>>, a.result, a.error)
      [] OTHER -> Out(s, <<Ev("reconnector")>>, NoResult, NoError)

\* reconnect() that returns quietly when no reconnector is set
reconnect_quietly(s) ==
    IF s.reconnector # None
    THEN LET a == ReconnectorCall(s)
         IN Out(a.s, <<Ev("reconnect")>> \o a.trace, a.result, a.error)
    ELSE Out(s, <<Ev("reconnect")>>, NoResult, NoError)

reconnect(s) ==
    IF s.reconnector # None
    THEN LET a == ReconnectorCall(s)
         IN Out(a.s, <<Ev("reconnect")>> \o a.trace, a.result, a.error)
    ELSE Out(s, <<Ev("reconnect")>>, NoResult, Err("Exception", M_noreconnector))

\* the guard reconnecting whether or not a handle is missing
_reconnect_always(s) == reconnect(s)

_reconnect_if_missing_connection(s) ==
    IF get_connection(s) = None \/ get_read_connection(s) = None
    THEN reconnect(s)
    ELSE Out(s, <<>>, NoResult, NoError)

(***************************************************************************)
(* Execution Pipeline                                                      *)
(***************************************************************************)
\* QueryException(sql, bindings, previous); the class lives in
\* exceptions/query.py: its message is taken to be the cause's message
QueryException(b, previous) ==
    [type |-> "QueryException", msg |-> previous.msg,
     bindings |-> b, cause |-> previous.type]

Contains(sub, msg) ==
    \E i \in 1..(Len(msg) - Len(sub) + 1) : SubSeq(msg, i, i + Len(sub) - 1) = sub

\* the classification answering True for every message
_caused_by_any_error(e) == Len(e.msg) >= 0

_caused_by_lost_connection(e) ==
    \E i \in 1..Len(LostConnectionMessages) : Contains(LostConnectionMessages[i], e.msg)

_get_cursor_for_select(s, use_read_connection) ==
    IF use_read_connection THEN get_read_connection(s) ELSE get_connection(s)

BoolOf(ret) == IF ret = "data1" THEN "bool(data1)" ELSE "bool(data2)"

\* one driver conversation on handle h: the calls pre, then execute, which
\* the driver answers with o, and after a successful execute the calls post;
\* a call on an absent handle is an AttributeError
Attempt(h, pre, post, o, value) ==
    IF h = None THEN Out(None, <<>>, NoResult, AttributeError)
    ELSE IF o # Ok
         THEN Out(None, DriverCalls(h, pre \o <<"execute">>), NoResult, DriverError(o))
         ELSE Out(None, DriverCalls(h, pre \o <<"execute">> \o post), value, NoError)

select_callback(s, use_read_connection, o, ret) ==
    IF pretending_(s) THEN Out(None, <<>>, "[]", NoError)
    ELSE Attempt(_get_cursor_for_select(s, use_read_connection),
                 <<"cursor">>, <<"fetchall">>, o, ret)

statement_callback(s, o, ret) ==
    IF pretending_(s) THEN Out(None, <<>>, "True", NoError)
    ELSE Attempt(get_connection(s), <<"cursor">>, <<>>, o, ret)

affecting_statement_callback(s, o, ret) ==
    IF pretending_(s) THEN Out(None, <<>>, "True", NoError)
    ELSE Attempt(get_connection(s), <<"cursor">>, <<>>, o, ret)

unprepared_callback(s, o, ret) ==
    IF pretending_(s) THEN Out(None, <<>>, "True", NoError)
    ELSE Attempt(get_connection(s), <<>>, <<>>, o, BoolOf(ret))

callback(s, kind, use_read_connection, o, ret) ==
    CASE kind = "select" -> select_callback(s, use_read_connection, o, ret)
      [] kind = "statement" -> statement_callback(s, o, ret)
      [] kind = "affecting_statement" -> affecting_statement_callback(s, o, ret)
      [] OTHER -> unprepared_callback(s, o, ret)

\* how an attempt ended, as the caller of the driver sees it
LostSamples == {M_gone, M_noconn, M_lost}
OutcomeEvs == {"ok", "lost", "other", "nohandle"}
Ended(e) ==
    Ev(IF e.type = "none" THEN "ok"
       ELSE IF e.type # "DriverError" THEN "nohandle"
       ELSE IF e.msg \in LostSamples THEN "lost" ELSE "other")

_run_query_callback(s, kind, use_read_connection, b, o, ret) ==
    LET a == callback(s, kind, use_read_connection, o, ret)
        t == <<Ev("attempt")>> \o a.trace \o <<Ended(a.error)>>
    IN IF Raised(a)
       THEN Out(s, t, NoResult, QueryException(prepare_bindings(b), a.error))
       ELSE Out(s, t, a.result, NoError)

\* the retry without the reconnect
_try_again_without_reconnect(s, e, kind, use_read_connection, b, o2) ==
    IF _caused_by_lost_connection(e)
    THEN _run_query_callback(s, kind, use_read_connection, b, o2, "data2")
    ELSE Out(s, <<>>, NoResult, e)

\* the retry repeated once more when it fails the same way
_try_again_twice(s, e, kind, use_read_connection, b, o2) ==
    IF _caused_by_lost_connection(e)
    THEN LET r == reconnect(s)
         IN IF Raised(r) THEN Out(r.s, r.trace, NoResult, r.error)
            ELSE LET a == _run_query_callback(r.s, kind, use_read_connection, b, o2, "data2")
                     c == _run_query_callback(r.s, kind, use_read_connection, b, o2, "data2")
                 IN IF Raised(a) /\ _caused_by_lost_connection(a.error)
                    THEN Out(c.s, r.trace \o a.trace \o c.trace, c.result, c.error)
                    ELSE Out(a.s, r.trace \o a.trace, a.result, a.error)
    ELSE Out(s, <<>>, NoResult, e)

\* the retry calling the callback directly, its failure left unwrapped
_try_again_unwrapped(s, e, kind, use_read_connection, b, o2) ==
    IF _caused_by_lost_connection(e)
    THEN LET r == reconnect(s)
         IN IF Raised(r) THEN Out(r.s, r.trace, NoResult, r.error)
            ELSE LET a == callback(r.s, kind, use_read_connection, o2, "data2")
                 IN Out(r.s, r.trace \o <<Ev("attempt")>> \o a.trace \o <<Ended(a.error)>>,
                        a.result, a.error)
    ELSE Out(s, <<>>, NoResult, e)

_try_again_if_caused_by_lost_connection(s, e, kind, use_read_connection, b, o2) ==
    IF _caused_by_lost_connection(e)
    THEN LET r == reconnect(s)
         IN IF Raised(r) THEN Out(r.s, r.trace, NoResult, r.error)
            ELSE LET a == _run_query_callback(r.s, kind, use_read_connection, b, o2, "data2")
                 IN Out(a.s, r.trace \o a.trace, a.result, a.error)
    ELSE Out(s, <<>>, NoResult, e)

log_query(s) == <<Ev("log_query")>>

_run(s, kind, use_read_connection, b, o1, o2) ==
    LET m == _reconnect_if_missing_connection(s)
    IN IF Raised(m) THEN Out(m.s, m.trace, NoResult, m.error)
       ELSE LET a == _run_query_callback(m.s, kind, use_read_connection, b, o1, "data1")
                t == IF Raised(a)
                     THEN _try_again_if_caused_by_lost_connection(
                              a.s, a.error, kind, use_read_connection, b, o2)
                     ELSE Out(a.s, <<>>, a.result, NoError)
            IN IF Raised(t)
               THEN Out(t.s, m.trace \o a.trace \o t.trace, NoResult, t.error)
               ELSE Out(t.s, m.trace \o a.trace \o t.trace \o log_query(t.s),
                        t.result, NoError)

select(s, b, use_read_connection, o1, o2) == _run(s, "select", use_read_connection, b, o1, o2)

select_from_write_connection(s, b, o1, o2) ==
    select(s, IF b = None THEN "{}" ELSE b, TRUE, o1, o2)

statement(s, b, o1, o2) == _run(s, "statement", TRUE, b, o1, o2)

affecting_statement(s, b, o1, o2) == _run(s, "affecting_statement", TRUE, b, o1, o2)

unprepared(s, o1, o2) == _run(s, "unprepared", TRUE, "{}", o1, o2)

(***************************************************************************)
(* Transaction Manager                                                     *)
(***************************************************************************)
begin_transaction(s) ==
    Out([s EXCEPT !.transactions = @ + 1], <<>>, NoResult, NoError)

\* a physical commit / rollback on the write handle, answered by o
Physical(h, m, o) ==
    IF h = None THEN Out(None, <<>>, NoResult, AttributeError)
    ELSE IF o # Ok THEN Out(None, <<Call(h, m)>>, NoResult, DriverError(o))
    ELSE Out(None, <<Call(h, m)>>, NoResult, NoError)

\* commit() with the level test widened: a physical commit at every level
commit_at_every_level(s, o) ==
    LET p == IF s.transactions >= 1 THEN Physical(s.connection, "commit", o)
             ELSE Out(None, <<>>, NoResult, NoError)
    IN IF Raised(p) THEN Out(s, p.trace, NoResult, p.error)
       ELSE Out([s EXCEPT !.transactions = @ - 1], p.trace, NoResult, NoError)

\* commit() that lowers the level before the physical commit
commit_decrement_first(s, o) ==
    LET p == IF s.transactions = 1 THEN Physical(s.connection, "commit", o)
             ELSE Out(None, <<>>, NoResult, NoError)
    IN Out([s EXCEPT !.transactions = @ - 1], p.trace, NoResult, p.error)

commit(s, o) ==
    LET p == IF s.transactions = 1 THEN Physical(s.connection, "commit", o)
             ELSE Out(None, <<>>, NoResult, NoError)
    IN IF Raised(p) THEN Out(s, p.trace, NoResult, p.error)
       ELSE Out([s EXCEPT !.transactions = @ - 1], p.trace, NoResult, NoError)

\* rollback() that resets the level and rolls back at every level
rollback_at_every_level(s, o) ==
    IF s.transactions >= 1
    THEN LET p == Physical(s.connection, "rollback", o)
         IN Out([s EXCEPT !.transactions = 0], p.trace, NoResult, p.error)
    ELSE Out([s EXCEPT !.transactions = @ - 1], <<>>, NoResult, NoError)

rollback(s, o) ==
    IF s.transactions = 1
    THEN LET p == Physical(s.connection, "rollback", o)
         IN Out([s EXCEPT !.transactions = 0], p.trace, NoResult, p.error)
    ELSE Out([s EXCEPT !.transactions = @ - 1], <<>>, NoResult, NoError)

\* transaction() that rolls back after its commit as well
transaction_exit_rollback_always(s, exc, o, o2) ==
    IF exc.type # "none"
    THEN LET r == rollback(s, o)
         IN Out(r.s, r.trace, NoResult, IF Raised(r) THEN r.error ELSE exc)
    ELSE LET c == commit(s, o)
             r == rollback(c.s, o2)
         IN Out(r.s, c.trace \o r.trace, NoResult,
                IF Raised(r) THEN r.error ELSE c.error)

\* transaction(): the generator after the with-body ended; exc is the error
\* the body raised (NoError when it completed)
transaction_exit(s, exc, o, o2) ==
    IF exc.type # "none"
    THEN LET r == rollback(s, o)
         IN Out(r.s, r.trace, NoResult, IF Raised(r) THEN r.error ELSE exc)
    ELSE LET c == commit(s, o)
         IN IF ~Raised(c) THEN c
            ELSE LET r == rollback(c.s, o2)
                 IN Out(r.s, c.trace \o r.trace, NoResult,
                        IF Raised(r) THEN r.error ELSE c.error)

__enter__(s) == begin_transaction(s)

\* raise (exc_type, exc_val, exc_tb): Python 3 rejects the tuple with a
\* TypeError, Python 2 raises a new instance of its first element
RaiseTuple(exc, py) ==
    IF py = 3 THEN Err("TypeError", <<"exceptions", "must", "derive", "from", "BaseException">>)
    ELSE Err(exc.type, <<>>)

__exit__(s, exc, o, o2, py) ==
    IF exc.type = "none"
    THEN LET c == commit(s, o)
         IN IF ~Raised(c) THEN c
            ELSE LET r == rollback(c.s, o2)
                 IN Out(r.s, c.trace \o r.trace, NoResult,
                        IF Raised(r) THEN r.error ELSE c.error)
    ELSE LET r == rollback(s, o)
         IN Out(r.s, r.trace, NoResult,
                IF Raised(r) THEN r.error ELSE RaiseTuple(exc, py))

(***************************************************************************)
(* Pretend-Mode Controller                                                 *)
(***************************************************************************)
\* pretend() that enables the log but leaves the pretend flag alone
pretend_enter_without_flag(s) == enable_query_log(s)

\* pretend() up to the call of the callback; the saved flag is its local
pretend_enter(s) == [enable_query_log(s) EXCEPT !.pretending = TRUE]

\* pretend() after the callback returned
pretend_return(s, saved) ==
    [s EXCEPT !.pretending = FALSE, !.logging_queries = saved]

\* pretend() when the callback raised: the error leaves pretend() at once
pretend_raise(s, saved) == s

(***************************************************************************)
(* The state machine                                                       *)
(***************************************************************************)
Frame(k, saved, pure) == [kind |-> k, saved |-> saved, pure |-> pure]
Top == stack[Len(stack)]
Pop == SubSeq(stack, 1, Len(stack) - 1)
Impure(st) == [i \in 1..Len(st) |-> [st[i] EXCEPT !.pure = FALSE]]
InPure == Len(stack) > 0 /\ Top.kind = "pretend" /\ Top.pure
Missing == get_connection(Self) = None \/ get_read_connection(Self) = None
CountCalls(t, m) == Cardinality({i \in 1..Len(t) : t[i].ev = "call" /\ t[i].m = m})
PyVersions == {2, 3}
WorkErrors == {WorkError}

NestNone == [phase |-> "none", n |-> 0, k |-> 0, phys |-> 0]

Last(op, arg, o, saved) ==
    [op |-> op, arg |-> arg, trace |-> o.trace, result |-> o.result,
     error |-> o.error, level |-> transactions, missing |-> Missing,
     pure |-> InPure, saved |-> saved]

Apply(s) ==
    /\ connection' = s.connection
    /\ read_connection' = s.read_connection
    /\ reconnector' = s.reconnector
    /\ transactions' = s.transactions
    /\ pretending' = s.pretending
    /\ logging_queries' = s.logging_queries

Init ==
    /\ connection = "h1"
    /\ read_connection = None
    /\ reconnector = None
    /\ transactions = 0
    /\ pretending = FALSE
    /\ logging_queries = FALSE
    /\ stack = <<>>
    /\ last = Last("__init__", "-", Out(Self, <<>>, NoResult, NoError), FALSE)
    /\ nest = NestNone

BeginTransaction ==
    /\ transactions < MaxLevel
    /\ LET r == begin_transaction(Self)
       IN /\ Apply(r.s)
          /\ last' = Last("begin_transaction", "-", r, FALSE)
          /\ nest' = IF transactions = 0
                     THEN [phase |-> "begin", n |-> 1, k |-> 0, phys |-> 0]
                     ELSE IF nest.phase = "begin" THEN [nest EXCEPT !.n = @ + 1]
                     ELSE NestNone
    /\ stack' = Impure(stack)

Commit ==
    /\ transactions > -MaxUnder
    /\ \E o \in {Ok, M_gone} :
         LET r == commit(Self, o)
         IN /\ Apply(r.s)
            /\ last' = Last("commit", "-", r, FALSE)
            /\ nest' = IF nest.phase \in {"begin", "commit"} /\ nest.k < nest.n /\ ~Raised(r)
                       THEN [phase |-> "commit", n |-> nest.n, k |-> nest.k + 1,
                             phys |-> nest.phys + CountCalls(r.trace, "commit")]
                       ELSE NestNone
    /\ stack' = Impure(stack)

Rollback ==
    /\ transactions > -MaxUnder
    /\ \E o \in {Ok, M_gone} :
         LET r == rollback(Self, o)
         IN /\ Apply(r.s)
            /\ last' = Last("rollback", "-", r, FALSE)
            /\ nest' = IF nest.phase \in {"begin", "rollback"} /\ nest.k < nest.n /\ ~Raised(r)
                       THEN [phase |-> "rollback", n |-> nest.n, k |-> nest.k + 1,
                             phys |-> nest.phys + CountCalls(r.trace, "rollback")]
                       ELSE NestNone
    /\ stack' = Impure(stack)

\* a method that is neither a statement nor part of a begin/commit run
Other(op, arg, r) ==
    /\ Apply(r.s)
    /\ last' = Last(op, arg, r, FALSE)
    /\ nest' = NestNone
    /\ stack' = Impure(stack)

SetConnection == \E h \in Handles \cup {None} : Other("set_connection", h, set_connection(Self, h))

SetReadConnection ==
    \E h \in ReadHandles \cup {None} : Other("set_read_connection", h, set_read_connection(Self, h))

Disconnect == Other("disconnect", "-", disconnect(Self))

SetReconnector ==
    \E r \in Reconnectors \cup {None} : Other("set_reconnector", r, set_reconnector(Self, r))

EnableQueryLog ==
    Other("enable_query_log", "-", Out(enable_query_log(Self), <<>>, NoResult, NoError))

DisableQueryLog ==
    Other("disable_query_log", "-", Out(disable_query_log(Self), <<>>, NoResult, NoError))

GetConnection ==
    Other("get_connection", "-", Out(Self, <<>>, get_connection(Self), NoError))

GetReadConnection ==
    Other("get_read_connection", "-", Out(Self, <<>>, get_read_connection(Self), NoError))

\* a statement: it ends a run of begin/commit calls, and leaves the frames
\* and the count of scopes entered and left alone
Statement(op, arg, r) ==
    /\ Apply(r.s)
    /\ last' = Last(op, arg, r, FALSE)
    /\ nest' = IF nest.phase \in {"enter", "exit"} THEN nest ELSE NestNone
    /\ stack' = stack

\* the driver's answer to a second attempt matters only after a failed first
Second(o1) == IF o1 = Ok THEN {Ok} ELSE {Ok, M_lost, M_lower}

Select ==
    \E b \in Bindings, u \in BOOLEAN, o1 \in First : \E o2 \in Second(o1) :
        Statement("select", IF u THEN "read" ELSE "write", select(Self, b, u, o1, o2))

SelectFromWriteConnection ==
    \E b \in Bindings, o1 \in First : \E o2 \in Second(o1) :
        Statement("select_from_write_connection", "-",
                  select_from_write_connection(Self, b, o1, o2))

StatementCall ==
    \E b \in Bindings, o1 \in First : \E o2 \in Second(o1) :
        Statement("statement", "-", statement(Self, b, o1, o2))

AffectingStatement ==
    \E b \in Bindings, o1 \in First : \E o2 \in Second(o1) :
        Statement("affecting_statement", "-", affecting_statement(Self, b, o1, o2))

Unprepared ==
    \E o1 \in First : \E o2 \in Second(o1) :
        Statement("unprepared", "-", unprepared(Self, o1, o2))

PretendCall ==
    /\ Len(stack) < MaxDepth
    /\ Apply(pretend_enter(Self))
    /\ stack' = Append(Impure(stack), Frame("pretend", logging_queries, TRUE))
    /\ last' = Last("pretend_call", "-", Out(Self, <<>>, NoResult, NoError), logging_queries)
    /\ nest' = NestNone

PretendReturn ==
    /\ Len(stack) > 0 /\ Top.kind = "pretend"
    /\ Apply(pretend_return(Self, Top.saved))
    /\ stack' = Impure(Pop)
    /\ last' = Last("pretend", "-", Out(Self, <<>>, NoResult, NoError), Top.saved)
    /\ nest' = NestNone

PretendRaise ==
    /\ Len(stack) > 0 /\ Top.kind = "pretend"
    /\ \E e \in WorkErrors :
         /\ Apply(pretend_raise(Self, Top.saved))
         /\ last' = Last("pretend", "-", Out(Self, <<>>, NoResult, e), Top.saved)
    /\ stack' = Impure(Pop)
    /\ nest' = NestNone

\* nest counts the scopes entered from level 0 (n) and those left (k), with
\* the physical commits of the exits; "failed" once an exit raised
ScopeEnter(k, r) ==
    /\ Len(stack) < MaxDepth
    /\ transactions < MaxLevel
    /\ Apply(r.s)
    /\ stack' = Append(Impure(stack), Frame(k, FALSE, FALSE))
    /\ last' = Last(k \o "_enter", "-", r, FALSE)
    /\ nest' = IF transactions = 0
               THEN [phase |-> "enter", n |-> 1, k |-> 0, phys |-> 0]
               ELSE IF nest.phase = "enter" THEN [nest EXCEPT !.n = @ + 1]
               ELSE NestNone

\* how the body of a scope ended
HowEnded(exc) == IF exc.type = "none" THEN "completed" ELSE "raised"

ScopeExit(k, exc, r) ==
    /\ Len(stack) > 0 /\ Top.kind = k
    /\ transactions > -MaxUnder
    /\ Apply(r.s)
    /\ stack' = Impure(Pop)
    /\ last' = Last(k, HowEnded(exc), r, FALSE)
    /\ nest' = IF nest.phase \in {"enter", "exit"} /\ nest.k < nest.n
               THEN [phase |-> IF exc.type = "none" /\ ~Raised(r) THEN "exit" ELSE "failed",
                     n |-> nest.n, k |-> nest.k + 1,
                     phys |-> nest.phys + CountCalls(r.trace, "commit")]
               ELSE NestNone

TransactionEnter == ScopeEnter("transaction", begin_transaction(Self))

TransactionExit ==
    \E exc \in WorkErrors \cup {NoError}, o \in {Ok, M_gone}, o2 \in {Ok, M_lower} :
        ScopeExit("transaction", exc, transaction_exit(Self, exc, o, o2))

WithEnter == ScopeEnter("with", __enter__(Self))

WithExit ==
    \E exc \in WorkErrors \cup {NoError}, o \in {Ok, M_gone}, o2 \in {Ok, M_lower},
       py \in PyVersions :
        ScopeExit("with", exc, __exit__(Self, exc, o, o2, py))

Next ==
    \/ BeginTransaction
    \/ Commit
    \/ Rollback
    \/ SetConnection
    \/ SetReadConnection
    \/ Disconnect
    \/ SetReconnector
    \/ EnableQueryLog
    \/ DisableQueryLog
    \/ GetConnection
    \/ GetReadConnection
    \/ Select
    \/ SelectFromWriteConnection
    \/ StatementCall
    \/ AffectingStatement
    \/ Unprepared
    \/ PretendCall
    \/ PretendReturn
    \/ PretendRaise
    \/ TransactionEnter
    \/ TransactionExit
    \/ WithEnter
    \/ WithExit

Spec == Init /\ [][Next]_vars

TypeOK ==
    /\ connection \in Handles \cup {None}
    /\ read_connection \in ReadHandles \cup {None}
    /\ reconnector \in Reconnectors \cup {None}
    /\ transactions \in (0 - MaxUnder)..MaxLevel
    /\ pretending \in BOOLEAN
    /\ logging_queries \in BOOLEAN
    /\ Len(stack) <= MaxDepth

(***************************************************************************)
(* Explorations of one concern each: the same object and methods, with     *)
(* the methods the concern does not involve left out.                      *)
(***************************************************************************)
\* transaction bookkeeping, handle setters and the scoped forms
NextTxn ==
    \/ BeginTransaction
    \/ Commit
    \/ Rollback
    \/ SetConnection
    \/ SetReadConnection
    \/ Disconnect
    \/ EnableQueryLog
    \/ DisableQueryLog
    \/ GetConnection
    \/ GetReadConnection
    \/ TransactionEnter
    \/ TransactionExit
    \/ WithEnter
    \/ WithExit

SpecTxn == Init /\ [][NextTxn]_vars

\* everything that moves the transaction level or runs a statement
NextLevel ==
    \/ BeginTransaction
    \/ Commit
    \/ Rollback
    \/ TransactionEnter
    \/ TransactionExit
    \/ WithEnter
    \/ WithExit
    \/ SetConnection
    \/ SetReadConnection
    \/ Disconnect
    \/ Select
    \/ SelectFromWriteConnection
    \/ StatementCall
    \/ AffectingStatement
    \/ Unprepared
    \/ SetReconnector

SpecLevel == Init /\ [][NextLevel]_vars

\* the execution pipeline, outside any callback
NextRun ==
    \/ Select
    \/ SelectFromWriteConnection
    \/ StatementCall
    \/ AffectingStatement
    \/ Unprepared
    \/ BeginTransaction
    \/ Commit
    \/ SetConnection
    \/ SetReadConnection
    \/ Disconnect
    \/ SetReconnector
    \/ EnableQueryLog
    \/ DisableQueryLog

SpecRun == Init /\ [][NextRun]_vars

\* pretend() and the statements its callback issues
NextPretend ==
    \/ PretendCall
    \/ PretendReturn
    \/ PretendRaise
    \/ Select
    \/ SelectFromWriteConnection
    \/ StatementCall
    \/ AffectingStatement
    \/ Unprepared
    \/ SetReadConnection
    \/ Disconnect
    \/ SetReconnector
    \/ EnableQueryLog
    \/ DisableQueryLog

SpecPretend == Init /\ [][NextPretend]_vars

(***************************************************************************)
(* Reading the record of the last call                                     *)
(***************************************************************************)
StatementOps == {"select", "select_from_write_connection", "statement",
                 "affecting_statement", "unprepared"}
SelectOps == {"select", "select_from_write_connection"}
SetterOps == {"set_connection", "set_read_connection", "disconnect"}
Positions(t, e) == {i \in 1..Len(t) : t[i].ev = e}
IsOutcome(x) == x.ev \in OutcomeEvs
\* how the attempts of the call ended, in order
Ends(t) == SelectSeq(t, IsOutcome)
NoDriverCall(t) == Positions(t, "call") = {}
Returned == last.error.type = "none"

(***************************************************************************)
(* Claims                                                                  *)
(***************************************************************************)

\* C1: the transaction level is never negative, whatever sequence of
\* begin_transaction, commit, rollback, scoped entries and exits, statements
\* and setters has run since construction.
C1_LevelNeverNegative == transactions >= 0

\* C2: get_read_connection() returns the write handle when the level is >= 1
\* or no read handle is configured, and returns the configured read handle
\* exactly when the level is 0 and a read handle is configured.
C2_ReadRouting ==
    last.op = "get_read_connection" =>
        /\ (transactions >= 1 \/ read_connection = None) => last.result = connection
        /\ (read_connection # None /\ last.result = read_connection)
               <=> (transactions = 0 /\ read_connection # None)

\* C3: from level 0, N begin_transaction() calls followed by N commit() calls
\* that return issue exactly one physical commit on the write handle, by the
\* last commit() at level 1, and end at level 0; a commit() at a level above
\* 1 only decrements the level and makes no driver call.
C3_NestedCommit ==
    /\ nest.phase = "commit" =>
        /\ last.op = "commit"
        /\ nest.k < nest.n =>
             /\ last.trace = <<>>
             /\ nest.phys = 0
             /\ transactions = nest.n - nest.k
        /\ nest.k = nest.n =>
             /\ last.level = 1
             /\ last.trace = <<Call(connection, "commit")>>
             /\ nest.phys = 1
             /\ transactions = 0
    /\ (last.op = "commit" /\ last.level > 1) =>
        /\ Returned
        /\ last.trace = <<>>
        /\ transactions = last.level - 1

C3_Witness ==
    /\ nest.phase = "commit" /\ nest.n = 2 /\ nest.k = 2
    /\ transactions = 0 /\ nest.phys = 1

\* C4: from level 0, N begin_transaction() calls followed by N rollback()
\* calls that return issue exactly one physical rollback on the write handle,
\* by the last rollback() at level 1, and end at level 0; a rollback() at a
\* level above 1 only decrements the level and makes no driver call.
C4_NestedRollback ==
    /\ nest.phase = "rollback" =>
        /\ last.op = "rollback"
        /\ nest.k < nest.n =>
             /\ last.trace = <<>>
             /\ nest.phys = 0
             /\ transactions = nest.n - nest.k
        /\ nest.k = nest.n =>
             /\ last.level = 1
             /\ last.trace = <<Call(connection, "rollback")>>
             /\ nest.phys = 1
             /\ transactions = 0
    /\ (last.op = "rollback" /\ last.level > 1) =>
        /\ Returned
        /\ last.trace = <<>>
        /\ transactions = last.level - 1

C4_Witness ==
    /\ nest.phase = "rollback" /\ nest.n = 2 /\ nest.k = 2
    /\ transactions = 0 /\ nest.phys = 1

\* the last call was a statement: its attempts and reconnects
IsRun == last.op \in StatementOps
Attempts == Cardinality(Positions(last.trace, "attempt"))
ReconnectCalls == Cardinality(Positions(last.trace, "reconnect"))
ReconnectorCalls == Cardinality(Positions(last.trace, "reconnector"))
EndsAre(a, b) ==
    /\ Len(Ends(last.trace)) = 2
    /\ Ends(last.trace)[1].ev = a
    /\ Ends(last.trace)[2].ev = b
FirstEndIs(a) == Len(Ends(last.trace)) >= 1 /\ Ends(last.trace)[1].ev = a
SecondResults == {"data2", "bool(data2)"}
\* every reconnector invocation lies between the end of the first attempt
\* and the start of the second
ReconnectBetweenAttempts ==
    \A i \in Positions(last.trace, "reconnector") :
        /\ \E j \in Positions(last.trace, "lost") : j < i
        /\ Cardinality({j \in Positions(last.trace, "attempt") : j < i}) = 1
        /\ \E j \in Positions(last.trace, "attempt") : j > i

\* C5 as stated: a run() whose first attempt fails with a lost-connection
\* message and whose second attempt succeeds returns the second attempt's
\* result, the reconnector having been invoked exactly once, between the
\* two attempts.
C5_RetryOnce ==
    (IsRun /\ EndsAre("lost", "ok")) =>
        /\ Returned
        /\ last.result \in SecondResults
        /\ ReconnectorCalls = 1
        /\ ReconnectBetweenAttempts

\* C5 amended: the same for a run() that found no handle missing when it
\* started.
C5_RetryOnceHandlesPresent ==
    (IsRun /\ ~last.missing /\ EndsAre("lost", "ok")) =>
        /\ Returned
        /\ last.result \in SecondResults
        /\ ReconnectorCalls = 1
        /\ ReconnectBetweenAttempts

C5_Witness ==
    /\ last.op = "select" /\ ~last.missing /\ EndsAre("lost", "ok")
    /\ last.result = "data2"

\* the reconnect of the last run() raised
ReconnectRaised == last.error.type \in {"RuntimeError", "Exception"}
AllEndsLost == \A i \in 1..Len(Ends(last.trace)) : Ends(last.trace)[i].ev = "lost"

\* C6 as stated: a run() makes at most two attempts, and when every attempt
\* fails with a lost-connection message it raises a QueryException after
\* exactly two attempts and exactly one reconnect call.
C6_NoDoubleRetry ==
    IsRun =>
        /\ Attempts <= 2
        /\ (Attempts >= 1 /\ AllEndsLost) =>
             /\ last.error.type = "QueryException"
             /\ Attempts = 2
             /\ ReconnectCalls = 1

\* C6 amended: a run() makes at most two attempts; when it found no handle
\* missing at its start, its first attempt fails with a lost-connection
\* message and the reconnect that follows returns, it makes exactly two
\* attempts and one reconnect call, and when the second attempt fails with a
\* lost-connection message too it raises the QueryException of that attempt.
C6_NoDoubleRetryReconnected ==
    IsRun =>
        /\ Attempts <= 2
        /\ (~last.missing /\ FirstEndIs("lost") /\ ~ReconnectRaised) =>
             /\ Attempts = 2
             /\ ReconnectCalls = 1
             /\ AllEndsLost =>
                  /\ last.error.type = "QueryException"
                  /\ last.error.cause = "DriverError"
                  /\ last.error.msg = M_lost

C6_Witness ==
    /\ last.op = "statement" /\ ~last.missing /\ EndsAre("lost", "lost")
    /\ last.error.type = "QueryException"

\* C7: a run() that finds no handle missing and whose first attempt fails
\* with a driver error whose message holds no lost-connection substring
\* raises the wrapped QueryException after exactly one attempt and no
\* reconnect call.
C7_NonRetryable ==
    (IsRun /\ ~last.missing /\ FirstEndIs("other")) =>
        /\ last.error.type = "QueryException"
        /\ last.error.cause = "DriverError"
        /\ last.error.msg = M_lower
        /\ Attempts = 1
        /\ ReconnectCalls = 0

C7_Witness ==
    /\ last.op = "affecting_statement" /\ ~last.missing /\ FirstEndIs("other")
    /\ last.error.type = "QueryException" /\ reconnector # None

\* C8: at a level >= 1 every handle setter (set_connection,
\* set_read_connection, disconnect) fails with an error and leaves the
\* handles, the level and the flags as they were.
C8_SwapGuard ==
    [][(transactions >= 1 /\ last'.op \in SetterOps) =>
          /\ last'.error.type # "none"
          /\ UNCHANGED <<connection, read_connection, transactions,
                         pretending, logging_queries>>]_vars

\* C9: with no handle missing, a statement of any of the four kinds issued by
\* a pretend() callback that issues only statements makes no call on a real
\* handle, a select yielding an empty result and the others success; and
\* when such a callback returns, pretending() is false and the logging flag
\* is what it was before pretend().
C9_PretendIsolation ==
    /\ (IsRun /\ last.pure /\ ~last.missing) =>
        /\ NoDriverCall(last.trace)
        /\ ReconnectCalls = 0
        /\ Returned
        /\ last.result = IF last.op \in SelectOps THEN "[]" ELSE "True"
    /\ (last.op = "pretend" /\ last.pure /\ Returned) =>
        /\ ~pretending
        /\ logging_queries = last.saved

C9_Witness ==
    /\ last.op = "select" /\ last.pure /\ ~last.missing
    /\ read_connection = "h2" /\ last.result = "[]"

\* C10: once an error raised by the callback has left pretend(), the pretend
\* flag is false and the logging flag is what it was before pretend().
C10_RestoreOnRaise ==
    (last.op = "pretend" /\ ~Returned) =>
        /\ ~pretending
        /\ logging_queries = last.saved

ScopeOps == {"transaction", "with"}

\* C11: scopes of either form entered from level 0 whose bodies complete and
\* whose exits return: no exit issues a physical rollback, an inner exit
\* makes no driver call, and the outermost exit issues the one physical
\* commit and leaves the level at 0.
C11_ScopedSuccess ==
    (nest.phase = "exit" /\ last.op \in ScopeOps) =>
        /\ CountCalls(last.trace, "rollback") = 0
        /\ nest.k < nest.n =>
             /\ last.trace = <<>>
             /\ nest.phys = 0
             /\ transactions = nest.n - nest.k
        /\ nest.k = nest.n =>
             /\ last.trace = <<Call(connection, "commit")>>
             /\ nest.phys = 1
             /\ transactions = 0

C11_Witness ==
    /\ nest.phase = "exit" /\ nest.n = 2 /\ nest.k = 2
    /\ last.op = "with" /\ nest.phys = 1 /\ transactions = 0

\* C12: a scope of either form entered at level 0 whose body raises issues
\* no physical commit and exactly one physical rollback, leaves the level at
\* 0, and the caller sees the very error the body raised (the rollback
\* itself having gone through).
C12_ScopedFailure ==
    (/\ nest.phase = "failed" /\ nest.n = 1
     /\ last.op \in ScopeOps /\ last.arg = "raised"
     /\ last.error.type \notin {"DriverError", "AttributeError"}) =>
        /\ last.trace = <<Call(connection, "rollback")>>
        /\ transactions = 0
        /\ last.error = WorkError

\* the rollback that follows a failed commit is answered with M_lower when
\* the driver fails it
RollbackFailed == last.error = DriverError(M_lower)

\* C13: when the body of a scope of either form entered at level 0 completes
\* and the physical commit fails, the exit issues exactly one physical
\* rollback after it, leaves the level at 0, and the caller sees the commit
\* failure (the rollback having gone through).
C13_CommitFailure ==
    (/\ nest.phase = "failed" /\ nest.n = 1
     /\ last.op \in ScopeOps /\ last.arg = "completed"
     /\ last.trace # <<>>) =>
        /\ last.trace = <<Call(connection, "commit"), Call(connection, "rollback")>>
        /\ transactions = 0
        /\ ~RollbackFailed => last.error = DriverError(M_gone)

C13_Witness ==
    /\ nest.phase = "failed" /\ nest.n = 1
    /\ last.op = "transaction" /\ last.arg = "completed"
    /\ last.error = DriverError(M_gone) /\ transactions = 0

LogCalls == Positions(last.trace, "log_query")

\* C14: a run() made with query logging enabled that reaches an execution
\* attempt invokes log_query exactly once, as its last step, whether it
\* returns a result or propagates an error.
C14_LogOnce ==
    (IsRun /\ logging_queries /\ Attempts >= 1) =>
        LogCalls = {Len(last.trace)}

NormalizedBindings == {"[]", "b", "{}"}
LastEnd == Ends(last.trace)[Len(Ends(last.trace))]

\* C15: no run() ends with a raw driver error (or the AttributeError of a
\* call on an absent handle): when the last execution attempt of a run()
\* failed and no reconnect failed after it, the caller sees a QueryException
\* with normalized bindings whose cause is that attempt's failure.
C15_WrappedFailures ==
    IsRun =>
        /\ last.error.type \notin {"DriverError", "AttributeError"}
        /\ (Ends(last.trace) # <<>> /\ LastEnd.ev # "ok" /\ ~ReconnectRaised) =>
             /\ last.error.type = "QueryException"
             /\ last.error.bindings \in NormalizedBindings
             /\ last.error.cause = IF LastEnd.ev = "nohandle" THEN "AttributeError"
                                   ELSE "DriverError"

C15_Witness ==
    /\ IsRun /\ EndsAre("lost", "other")
    /\ last.error.type = "QueryException" /\ last.error.bindings = "[]"
    /\ last.error.cause = "DriverError" /\ last.error.msg = M_lower

\* C16: a run() that calls reconnect() while no reconnector is set ends with
\* the 'no reconnector available' error, that reconnect being the last
\* thing it did (no attempt and no second reconnect after it), and leaves
\* both handles and the level as they were.
C16_NoReconnector ==
    [][(/\ reconnector = None
        /\ last'.op \in StatementOps
        /\ Positions(last'.trace, "reconnect") # {}) =>
           /\ last'.error = Err("Exception", M_noreconnector)
           /\ Positions(last'.trace, "reconnect") = {Len(last'.trace)}
           /\ UNCHANGED <<connection, read_connection, transactions>>]_vars

C16_Witness ==
    /\ IsRun /\ reconnector = None
    /\ last.error = Err("Exception", M_noreconnector)
    /\ Attempts = 1 /\ FirstEndIs("lost")
    /\ ReconnectCalls = 1

\* C17: get_connection() never returns an absent handle, and a commit() or
\* rollback() called at level 1 never fails for having called an absent
\* handle.
C17_WriteHandlePresent ==
    /\ last.op = "get_connection" => last.result # None
    /\ (last.op \in {"commit", "rollback"} /\ last.level = 1) =>
           last.error.type # "AttributeError"

ReconnectsBeforeFirstAttempt ==
    Cardinality({i \in Positions(last.trace, "reconnect") :
                    \A j \in Positions(last.trace, "attempt") : i < j})

\* C18: a run() that starts with the write handle or the resolved read
\* handle absent calls reconnect() exactly once before its first attempt,
\* as the first thing it does; a run() that starts with both present starts
\* with the attempt.
C18_MissingHandleGuard ==
    IsRun =>
        /\ last.missing =>
             /\ last.trace[1].ev = "reconnect"
             /\ ReconnectsBeforeFirstAttempt = 1
        /\ ~last.missing =>
             /\ last.trace[1].ev = "attempt"
             /\ ReconnectsBeforeFirstAttempt = 0

C18_Witness ==
    /\ IsRun /\ last.missing
    /\ last.trace[1].ev = "reconnect"
    /\ Attempts >= 1 /\ ~NoDriverCall(last.trace)

InsidePretend == \E i \in 1..Len(stack) : stack[i].kind = "pretend"

\* C19: while some pretend() invocation is running its work, pretending() is
\* true, and a statement issued there makes no driver call.
C19_PretendThroughout ==
    InsidePretend =>
        /\ pretending
        /\ IsRun => NoDriverCall(last.trace)

CallsOn(hs) == {i \in Positions(last.trace, "call") : last.trace[i].h \in hs}

\* C20: every statement other than a plain select(), and
\* select_from_write_connection() in particular, makes no driver call on the
\* read handle.
C20_WriteHandleSelect ==
    (IsRun /\ last.op # "select") => CallsOn(ReadHandles) = {}

====
